---- MODULE Spec2Model ----
(***************************************************************************)
(* A model of the caching DNS server: the wire codec (parse_data.py,       *)
(* pack_data.py), the TTL cache (cache_dns.py), the recursive resolver     *)
(* (resolver_dns.py) and the server loop (server.py).                      *)
(*                                                                         *)
(* Conventions.  A Python bytes value is a sequence of numbers 0..255.  A  *)
(* Python str is a sequence of character codes ("a.b" is <<97, 46, 98>>),  *)
(* so that joining, splitting and number formatting are computed and not   *)
(* assumed.  Positions are 0-based as in the source: the byte at position  *)
(* p of data is data[p + 1].                                               *)
(***************************************************************************)
EXTENDS Integers, Sequences, FiniteSets, TLC

\* ------------------------------------------------------------------------
\* Wire constants of the source
\* ------------------------------------------------------------------------

\* parse_data.py, DNSRecordType and DNSClass
TypeA == 1
TypeNS == 2
TypePTR == 12
TypeAAAA == 28
ClassIN == 1

\* parse_data.py, the fixed sizes the parser reads
HeaderSize == 12
QuestionSize == 4
RecordHeaderSize == 10

\* the "." of str.join and str.split
Dot == 46

\* the ":" between the groups of an IPv6 text
Colon == 58

\* resolver_dns.py, the default of recursive_resolve's target_server_port
DefaultPort == 53

\* cache_dns.py: timedelta.seconds is the remainder of the difference within
\* one day; the days are a separate field that _records_expired never reads
SecondsPerDay == 86400

\* ------------------------------------------------------------------------
\* Helpers on bytes and text
\* ------------------------------------------------------------------------

Min(a, b) == IF a < b THEN a ELSE b

Max(a, b) == IF a > b THEN a ELSE b

\* len(data[position : position + size]): a Python slice never fails, it is
\* cut at the end of the buffer
SliceLen(data, position, size) ==
    Max(0, Min(Len(data), position + size) - Min(Len(data), position))

\* data[position : position + size] for a slice that lies within the buffer
Slice(data, position, size) == SubSeq(data, position + 1, position + size)

\* struct "!H" and "!I", big-endian
U16(data, position) == data[position + 1] * 256 + data[position + 2]

U32(data, position) == U16(data, position) * 65536 + U16(data, position + 2)

Pack16(n) == << n \div 256, n % 256 >>

Pack32(n) == Pack16(n \div 65536) \o Pack16(n % 65536)

\* str(octet)
RECURSIVE DecStr(_)
DecStr(n) == IF n < 10 THEN << 48 + n >> ELSE DecStr(n \div 10) \o << 48 + (n % 10) >>

HexDigit(d) == IF d < 10 THEN 48 + d ELSE 87 + d

\* f"{hextet:04x}"
Hex04(n) ==
    << HexDigit(n \div 4096), HexDigit((n \div 256) % 16),
       HexDigit((n \div 16) % 16), HexDigit(n % 16) >>

\* sep.join(parts)
RECURSIVE Join(_, _)
Join(parts, sep) ==
    IF Len(parts) = 0 THEN << >>
    ELSE IF Len(parts) = 1 THEN parts[1]
    ELSE parts[1] \o << sep >> \o Join(Tail(parts), sep)

\* text.split(sep): always at least one part, "" splits to [""]
RECURSIVE SplitFrom(_, _, _, _)
SplitFrom(text, sep, i, cur) ==
    IF i > Len(text) THEN << cur >>
    ELSE IF text[i] = sep THEN << cur >> \o SplitFrom(text, sep, i + 1, << >>)
    ELSE SplitFrom(text, sep, i + 1, Append(cur, text[i]))

Split(text, sep) == SplitFrom(text, sep, 1, << >>)

\* ------------------------------------------------------------------------
\* Decoder (parse_data.py)
\* ------------------------------------------------------------------------

\* An exception raised while parsing (ValueError, IndexError, struct.error)
ParseError == [status |-> "error"]

\* The while loop of _read_domain_name does not end
ParseHang == [status |-> "hang"]

\* The loop of _read_domain_name.  compression_offset is a sequence of zero
\* or one position (None, or the position after the first pointer).  The
\* control flow of one iteration depends on current_pos alone, so an
\* execution of more than len(raw_data) iterations repeats one and never
\* ends: fuel counts the iterations left before that is known.
RECURSIVE ReadDomainLoop(_, _, _, _, _)
ReadDomainLoop(data, current_pos, compression_offset, name_parts, fuel) ==
    IF fuel = 0 THEN ParseHang
    ELSE IF current_pos >= Len(data) THEN ParseError
    ELSE LET byte == data[current_pos + 1] IN
         IF byte \div 64 = 3
         THEN IF current_pos + 1 >= Len(data) THEN ParseError
              ELSE LET offset == (byte % 64) * 256 + data[current_pos + 2] IN
                   IF offset >= Len(data) THEN ParseError
                   ELSE ReadDomainLoop(data, offset,
                            IF compression_offset = << >>
                            THEN << current_pos + 2 >> ELSE compression_offset,
                            name_parts, fuel - 1)
         ELSE IF byte > 63 THEN ParseError
         ELSE IF byte = 0
         THEN [status |-> "ok",
               position |-> IF compression_offset = << >>
                            THEN current_pos + 1 ELSE compression_offset[1],
               name_parts |-> name_parts]
         ELSE LET label_end == current_pos + 1 + byte IN
              IF label_end > Len(data) THEN ParseError
              ELSE ReadDomainLoop(data, label_end, compression_offset,
                       Append(name_parts, Slice(data, current_pos + 1, byte)),
                       fuel - 1)

\* part.decode('ascii') succeeds
IsAscii(part) == \A i \in 1..Len(part) : part[i] < 128

\* the end of _read_domain_name, after its loop ended as r
JoinName(r) ==
    IF r.status # "ok" THEN r
    ELSE IF \E i \in 1..Len(r.name_parts) : ~IsAscii(r.name_parts[i]) THEN ParseError
    ELSE [status |-> "ok", position |-> r.position, name |-> Join(r.name_parts, Dot)]

\* _read_domain_name with self._position = position: [status, position, name]
ReadDomainName(data, position) ==
    JoinName(ReadDomainLoop(data, position, << >>, << >>, Len(data) + 1))

\* _parse_header: [status, position, header]
ParseHeader(data) ==
    IF SliceLen(data, 0, HeaderSize) # HeaderSize THEN ParseError
    ELSE [status |-> "ok", position |-> HeaderSize,
          header |-> [packet_id |-> U16(data, 0), flags |-> U16(data, 2),
                      questions_count |-> U16(data, 4), answers_count |-> U16(data, 6),
                      authority_count |-> U16(data, 8),
                      additional_count |-> U16(data, 10)]]

RECURSIVE ParseQuestions(_, _, _, _)

\* one question of _parse_questions, its name read as n
ParseQuestion(data, count, questions, n) ==
    IF n.status # "ok" THEN n
    ELSE IF SliceLen(data, n.position, QuestionSize) # QuestionSize THEN ParseError
    ELSE ParseQuestions(data, n.position + QuestionSize, count - 1,
             Append(questions, [domain |-> n.name,
                                record_type |-> U16(data, n.position),
                                record_class |-> U16(data, n.position + 2)]))

\* _parse_questions, count questions to go: [status, position, items]
ParseQuestions(data, position, count, questions) ==
    IF count = 0 THEN [status |-> "ok", position |-> position, items |-> questions]
    ELSE ParseQuestion(data, count, questions, ReadDomainName(data, position))

\* ".".join(str(octet) for octet in octets)
RECURSIVE OctetsText(_)
OctetsText(octets) ==
    IF Len(octets) = 0 THEN << >>
    ELSE IF Len(octets) = 1 THEN DecStr(octets[1])
    ELSE DecStr(octets[1]) \o << Dot >> \o OctetsText(Tail(octets))

\* ":".join(f"{hextet:04x}" ...) over count hextets from position on
RECURSIVE HextetsText(_, _, _)
HextetsText(data, position, count) ==
    IF count = 0 THEN << >>
    ELSE IF count = 1 THEN Hex04(U16(data, position))
    ELSE Hex04(U16(data, position)) \o << Colon >> \o HextetsText(data, position + 2, count - 1)

\* the NS and PTR branch of _parse_record_data, the name read as n
NameData(n) ==
    IF n.status # "ok" THEN n
    ELSE [status |-> "ok", position |-> n.position, data |-> n.name]

\* _parse_record_data: [status, position, data]
ParseRecordData(data, position, record_type, data_length) ==
    IF record_type = TypeA
    THEN IF SliceLen(data, position, data_length) # data_length THEN ParseError
         ELSE [status |-> "ok", position |-> position + data_length,
               data |-> OctetsText(Slice(data, position, data_length))]
    ELSE IF record_type = TypeNS \/ record_type = TypePTR
    THEN NameData(ReadDomainName(data, position))
    ELSE IF record_type = TypeAAAA
    THEN IF SliceLen(data, position, data_length) # 2 * (data_length \div 2)
         THEN ParseError
         ELSE [status |-> "ok", position |-> position + data_length,
               data |-> HextetsText(data, position, data_length \div 2)]
    ELSE ParseError

RECURSIVE ParseRecordSection(_, _, _, _)

\* one record of _parse_record_section, its name read as n and its data as d
ParseRecordEnd(data, count, records, n, d) ==
    IF d.status # "ok" THEN d
    ELSE ParseRecordSection(data, d.position, count - 1,
             Append(records, [domain |-> n.name,
                              record_type |-> U16(data, n.position),
                              record_class |-> U16(data, n.position + 2),
                              ttl |-> U32(data, n.position + 4),
                              data_length |-> U16(data, n.position + 8),
                              data |-> d.data]))

\* one record of _parse_record_section, its name read as n
ParseRecord(data, count, records, n) ==
    IF n.status # "ok" THEN n
    ELSE IF SliceLen(data, n.position, RecordHeaderSize) # RecordHeaderSize
    THEN ParseError
    ELSE ParseRecordEnd(data, count, records, n,
             ParseRecordData(data, n.position + RecordHeaderSize,
                             U16(data, n.position), U16(data, n.position + 8)))

\* _parse_record_section, count records to go: [status, position, items]
ParseRecordSection(data, position, count, records) ==
    IF count = 0 THEN [status |-> "ok", position |-> position, items |-> records]
    ELSE ParseRecord(data, count, records, ReadDomainName(data, position))

\* _parse_all_records, third section parsed as ad: the packet
ParsedAdditional(header, questions, answers, authority_records, ad) ==
    IF ad.status # "ok" THEN ad
    ELSE [status |-> "ok", position |-> ad.position, header |-> header,
          questions |-> questions, answers |-> answers,
          authority_records |-> authority_records, additional_records |-> ad.items]

\* _parse_all_records, second section parsed as au
ParsedAuthority(raw_data, header, questions, answers, au) ==
    IF au.status # "ok" THEN au
    ELSE ParsedAdditional(header, questions, answers, au.items,
             ParseRecordSection(raw_data, au.position, header.additional_count, << >>))

\* _parse_all_records, first section parsed as an
ParsedAnswers(raw_data, header, questions, an) ==
    IF an.status # "ok" THEN an
    ELSE ParsedAuthority(raw_data, header, questions, an.items,
             ParseRecordSection(raw_data, an.position, header.authority_count, << >>))

\* __post_init__ after _parse_questions ended as q
ParsedQuestions(raw_data, header, q) ==
    IF q.status # "ok" THEN q
    ELSE ParsedAnswers(raw_data, header, q.items,
             ParseRecordSection(raw_data, q.position, header.answers_count, << >>))

\* __post_init__ after _parse_header ended as h
ParsedHeader(raw_data, h) ==
    IF h.status # "ok" THEN h
    ELSE ParsedQuestions(raw_data, h.header,
             ParseQuestions(raw_data, h.position, h.header.questions_count, << >>))

\* DNSPacket(raw_data): the parsed packet with status "ok", or the failure
DNSPacket(raw_data) == ParsedHeader(raw_data, ParseHeader(raw_data))

\* ------------------------------------------------------------------------
\* Encoder (pack_data.py)
\* ------------------------------------------------------------------------

\* An exception raised while encoding (struct.error, ValueError)
PackError == [status |-> "error"]

\* The flags word of create_error_response, as the source computes it:
\* (1 << 15) | (4 << 8)
ErrorFlags == 32768 + 4 * 256

\* The flags word of build_response_packet: (1 << 15) | (1 << 8)
ResponseFlags == 32768 + 256

\* The flags word of build_query_packet: 0x0100
QueryFlags == 256

\* create_error_response(request_id): request_id is request[:2], which is
\* shorter than two bytes when the request is
create_error_response(request_id) ==
    request_id \o Pack16(ErrorFlags) \o Pack16(0) \o Pack16(0) \o Pack16(0) \o Pack16(0)

RECURSIVE EncodeLabels(_)

\* one label of the loop of encode_domain_name, the labels after it encoded
\* as rest: struct "B" takes a length up to 255
EncodeLabel(label, rest) ==
    IF Len(label) > 255 \/ rest.status # "ok" THEN PackError
    ELSE [status |-> "ok", total_length |-> Len(label) + 1 + rest.total_length,
          encoded |-> << Len(label) >> \o label \o rest.encoded]

\* the loop of encode_domain_name over domain.split(".")
EncodeLabels(labels) ==
    IF Len(labels) = 0 THEN [status |-> "ok", total_length |-> 0, encoded |-> << >>]
    ELSE EncodeLabel(labels[1], EncodeLabels(Tail(labels)))

\* the end of encode_domain_name: the zero byte after the labels r
EndName(r) ==
    IF r.status # "ok" THEN PackError
    ELSE [status |-> "ok", total_length |-> r.total_length + 1,
          encoded |-> r.encoded \o << 0 >>]

\* encode_domain_name(domain): [status, total_length, encoded]
encode_domain_name(domain) == EndName(EncodeLabels(Split(domain, Dot)))

\* the value of the digit c in base, or -1
DigitValue(c, base) ==
    IF c >= 48 /\ c <= 57 THEN c - 48
    ELSE IF base = 16 /\ c >= 97 /\ c <= 102 THEN c - 87
    ELSE IF base = 16 /\ c >= 65 /\ c <= 70 THEN c - 55
    ELSE 0 - 1

\* int(text, base) on the digit strings the decoder produces: << value >>,
\* or << >> for a ValueError (an empty string, a character that is no digit)
RECURSIVE ParseIntFrom(_, _, _, _)
ParseIntFrom(text, base, i, acc) ==
    IF i > Len(text) THEN << acc >>
    ELSE IF DigitValue(text[i], base) < 0 THEN << >>
    ELSE ParseIntFrom(text, base, i + 1, acc * base + DigitValue(text[i], base))

ParseInt(text, base) == IF Len(text) = 0 THEN << >> ELSE ParseIntFrom(text, base, 1, 0)

RECURSIVE ParseInts(_, _)

ParseIntsStep(v, rest) ==
    IF v = << >> \/ rest.status # "ok" THEN PackError
    ELSE [status |-> "ok", values |-> v \o rest.values]

\* [int(part, base) for part in parts]: [status, values]
ParseInts(parts, base) ==
    IF Len(parts) = 0 THEN [status |-> "ok", values |-> << >>]
    ELSE ParseIntsStep(ParseInt(parts[1], base), ParseInts(Tail(parts), base))

RECURSIVE Pack16All(_)
Pack16All(values) ==
    IF Len(values) = 0 THEN << >> ELSE Pack16(values[1]) \o Pack16All(Tail(values))

\* struct.pack("!H4B", length, *octets)
PackA(length, octets) ==
    IF octets.status # "ok" \/ Len(octets.values) # 4
       \/ (\E i \in 1..Len(octets.values) : octets.values[i] > 255)
    THEN PackError
    ELSE [status |-> "ok", encoded |-> Pack16(length) \o octets.values]

\* struct.pack("!H", encoded_length) + encoded_data
PackName(n) ==
    IF n.status # "ok" \/ n.total_length > 65535 THEN PackError
    ELSE [status |-> "ok", encoded |-> Pack16(n.total_length) \o n.encoded]

\* struct.pack("!H8H", length, *hextets)
PackAAAA(length, hextets) ==
    IF hextets.status # "ok" \/ Len(hextets.values) # 8
       \/ (\E i \in 1..Len(hextets.values) : hextets.values[i] > 65535)
    THEN PackError
    ELSE [status |-> "ok", encoded |-> Pack16(length) \o Pack16All(hextets.values)]

\* encode_record_data(record_type, length, data): [status, encoded]
encode_record_data(record_type, length, data) ==
    IF record_type = TypeA THEN PackA(length, ParseInts(Split(data, Dot), 10))
    ELSE IF record_type = TypeNS \/ record_type = TypePTR
    THEN PackName(encode_domain_name(data))
    ELSE IF record_type = TypeAAAA
    THEN PackAAAA(length, ParseInts(Split(data, Colon), 16))
    ELSE PackError

RECURSIVE EncodeQuestions(_)

EncodeQuestion(question, n, rest) ==
    IF n.status # "ok" \/ rest.status # "ok" THEN PackError
    ELSE [status |-> "ok",
          encoded |-> n.encoded \o Pack16(question.record_type)
                      \o Pack16(question.record_class) \o rest.encoded]

\* the question loop of build_response_packet
EncodeQuestions(questions) ==
    IF Len(questions) = 0 THEN [status |-> "ok", encoded |-> << >>]
    ELSE EncodeQuestion(questions[1], encode_domain_name(questions[1].domain),
                        EncodeQuestions(Tail(questions)))

RECURSIVE EncodeRecords(_)

EncodeRecord(record, n, d, rest) ==
    IF n.status # "ok" \/ d.status # "ok" \/ rest.status # "ok" THEN PackError
    ELSE [status |-> "ok",
          encoded |-> n.encoded \o Pack16(record.record_type)
                      \o Pack16(record.record_class) \o Pack32(record.ttl)
                      \o d.encoded \o rest.encoded]

\* the answer loop of build_response_packet
EncodeRecords(records) ==
    IF Len(records) = 0 THEN [status |-> "ok", encoded |-> << >>]
    ELSE EncodeRecord(records[1], encode_domain_name(records[1].domain),
                      encode_record_data(records[1].record_type,
                                         records[1].data_length, records[1].data),
                      EncodeRecords(Tail(records)))

\* build_response_packet with its two loops done as q and a
ResponsePacket(request_header, questions, answer_records, q, a) ==
    IF q.status # "ok" \/ a.status # "ok" THEN PackError
    ELSE [status |-> "ok",
          packet |-> Pack16(request_header.packet_id) \o Pack16(ResponseFlags)
                     \o Pack16(Len(questions)) \o Pack16(Len(answer_records))
                     \o Pack16(0) \o Pack16(0) \o q.encoded \o a.encoded]

\* build_response_packet(request_header, questions, answer_records):
\* [status, packet]
build_response_packet(request_header, questions, answer_records) ==
    ResponsePacket(request_header, questions, answer_records,
                   EncodeQuestions(questions), EncodeRecords(answer_records))

\* build_query_packet with the name encoded as n
QueryPacket(query_id, record_type, record_class, n) ==
    IF n.status # "ok" THEN PackError
    ELSE [status |-> "ok",
          packet |-> Pack16(query_id) \o Pack16(QueryFlags) \o Pack16(1)
                     \o Pack16(0) \o Pack16(0) \o Pack16(0)
                     \o n.encoded \o Pack16(record_type) \o Pack16(record_class)]

\* build_query_packet(query_id, domain, record_type, record_class):
\* [status, packet]
build_query_packet(query_id, domain, record_type, record_class) ==
    QueryPacket(query_id, record_type, record_class, encode_domain_name(domain))

\* ------------------------------------------------------------------------
\* Cache (cache_dns.py)
\* ------------------------------------------------------------------------

\* {}: a dict without keys
EmptyMap == [k \in {} |-> k]

\* dict with key k set to v
MapSet(m, k, v) == [x \in DOMAIN m \cup {k} |-> IF x = k THEN v ELSE m[x]]

\* dict.pop(k)
MapPop(m, k) == [x \in DOMAIN m \ {k} |-> m[x]]

\* domain_name in self.cache_data and query_type in self.cache_data[domain_name]
HasEntry(cache, domain_name, query_type) ==
    domain_name \in DOMAIN cache /\ query_type \in DOMAIN cache[domain_name]

\* (datetime.now() - cached_time).seconds: the seconds field of the
\* difference, which leaves the whole days out
SecondsOf(now_time, cached_time) == (now_time - cached_time) % SecondsPerDay

\* _records_expired(domain, query_type) at time now_time
records_expired(cache, now_time, domain, query_type) ==
    LET entry == cache[domain][query_type]
        time_elapsed == SecondsOf(now_time, entry.cached_time)
    IN \E i \in 1..Len(entry.records) : time_elapsed >= entry.records[i].ttl

\* _remove_expired_records(domain, query_type): the map after it
remove_expired_records(cache, domain, query_type) ==
    LET types == MapPop(cache[domain], query_type) IN
    IF DOMAIN types = {} THEN MapPop(cache, domain)
    ELSE MapSet(cache, domain, types)

\* add_records(domain_name, query_type, records) at time now_time: the map
\* after it
add_records(cache, now_time, domain_name, query_type, records) ==
    LET with_domain == IF domain_name \in DOMAIN cache THEN cache
                       ELSE MapSet(cache, domain_name, EmptyMap)
    IN IF query_type \in DOMAIN with_domain[domain_name] THEN with_domain
       ELSE MapSet(with_domain, domain_name,
                MapSet(with_domain[domain_name], query_type,
                    [cached_time |-> now_time, records |-> records]))

\* get_records(domain_name, query_type) at time now_time: hit is FALSE for
\* None; cache is the map after the call
get_records(cache, now_time, domain_name, query_type) ==
    IF HasEntry(cache, domain_name, query_type)
    THEN IF records_expired(cache, now_time, domain_name, query_type)
         THEN [hit |-> FALSE, records |-> << >>,
               cache |-> remove_expired_records(cache, domain_name, query_type)]
         ELSE [hit |-> TRUE, records |-> cache[domain_name][query_type].records,
               cache |-> cache]
    ELSE [hit |-> FALSE, records |-> << >>, cache |-> cache]

\* ------------------------------------------------------------------------
\* State
\* ------------------------------------------------------------------------

VARIABLES
    root_server_port,   \* settings["root_server_port"], fixed at start-up
    cache_data,         \* DNSCache.cache_data: domain -> type -> entry
    now,                \* datetime.now(), in whole seconds
    pc,                 \* where the server thread is: "idle" in recvfrom,
                        \* "wait" in the resolver's sock.recv, "hung" in a
                        \* loop that does not end
    request,            \* the datagram being handled (or handled last)
    qindex,             \* the position of _handle_client's loop in the questions
    total_a_records,    \* _handle_client's total_a_records
    stack,              \* the active calls of recursive_resolve, outermost first
    reply,              \* what sendto gave the client for request
    qlog,               \* per question of request: how it was answered
    last_sent,          \* the last call of _query_dns_server
    last_received,      \* the last upstream datagram, the query it answered, the
                        \* kind of the call that sent the query, and whether the
                        \* resolution has seen only referrals so far
    event,              \* the step taken last
    cache_op,           \* the cache call made last, with what it saw and returned
    wire,               \* codec: the bytes given to the codec
    decoded,            \* codec: DNSPacket(wire), once computed
    built,              \* codec: create_error_response(wire[:2]), once computed
    rebuilt,            \* codec: build_response_packet of what was decoded
    lock,               \* threads: who holds DNSCache.lock
    sweeper,            \* threads: where _run_cache_cleanup is, and its snapshots
    handler,            \* threads: where the handler's call of the cache is
    removed,            \* threads: the entry the step taken last popped
    cache_file,         \* the file at settings["cache_filepath"]
    life                \* the Server object: where its construction or its
                        \* _close is, _handle_flag, the socket, the sweeper

vars == << root_server_port, cache_data, now, pc, request, qindex, total_a_records,
           stack, reply, qlog, last_sent, last_received, event, cache_op,
           wire, decoded, built, rebuilt, lock, sweeper, handler, removed,
           cache_file, life >>

serverVars == << root_server_port, pc, request, qindex, total_a_records, stack,
                 reply, qlog, last_sent, last_received >>

codecVars == << wire, decoded, built, rebuilt >>

threadVars == << lock, sweeper, handler, removed >>

lifeVars == << cache_file, life >>

\* ------------------------------------------------------------------------
\* Bounds and inputs
\* ------------------------------------------------------------------------

\* The clock runs through the seconds 0..MaxNow of a day
MaxNow == 1

\* The clock passes at most MaxDays whole days at once
MaxDays == 1

\* CPython ends a recursion deeper than sys.getrecursionlimit() frames with
\* RecursionError; the model scales that limit down to this many nested
\* calls of recursive_resolve
MaxResolveDepth == 3

\* "a", "b": client names; "n", "m": name server names
NameA == << 97 >>
NameB == << 98 >>
NameN == << 110 >>
NameM == << 109 >>

\* a name of one label on the wire
WireName(name) == << Len(name) >> \o name \o << 0 >>

WireHeader(id, flags, qd, an, ns, ar) ==
    Pack16(id) \o Pack16(flags) \o Pack16(qd) \o Pack16(an) \o Pack16(ns) \o Pack16(ar)

WireQuestion(name, type, class) == WireName(name) \o Pack16(type) \o Pack16(class)

\* a record whose rdlength field is rdlength and whose rdata bytes are rdata
WireRecord(name, type, class, ttl, rdlength, rdata) ==
    WireName(name) \o Pack16(type) \o Pack16(class) \o Pack32(ttl)
    \o Pack16(rdlength) \o rdata

\* settings["root_server_ip"]: "198.41.0.4"
RootServerIp == OctetsText(<< 198, 41, 0, 4 >>)

\* the values of settings["root_server_port"] the model starts with
RootPorts == {53, 5353}

Addr1 == << 93, 184, 216, 34 >>
Addr2 == << 192, 5, 6, 30 >>
Addr6 == << 32, 1, 13, 184, 0, 0, 0, 0, 0, 0, 0, 0, 0, 0, 0, 1 >>

\* client datagrams
ReqEmpty == << >>
ReqOneByte == << 171 >>
ReqFourBytes == << 171, 205, 0, 0 >>
ReqA == WireHeader(4660, 256, 1, 0, 0, 0) \o WireQuestion(NameA, TypeA, ClassIN)
ReqAB ==
    WireHeader(4661, 256, 2, 0, 0, 0) \o WireQuestion(NameA, TypeA, ClassIN)
    \o WireQuestion(NameB, TypeA, ClassIN)
\* a question whose name is a compression pointer to itself (offset 12)
ReqSelfPointer ==
    WireHeader(4662, 256, 1, 0, 0, 0) \o << 192, 12 >> \o Pack16(TypeA) \o Pack16(ClassIN)

Requests == {ReqEmpty, ReqOneByte, ReqFourBytes, ReqA, ReqAB, ReqSelfPointer}

\* upstream datagrams
RespAnswerOne ==
    WireHeader(4660, 33152, 0, 1, 0, 0)
    \o WireRecord(NameA, TypeA, ClassIN, 1, 4, Addr1)
\* two answers, the second with the smaller TTL
RespAnswerTwo ==
    WireHeader(4660, 33152, 0, 2, 0, 0)
    \o WireRecord(NameA, TypeA, ClassIN, 2, 4, Addr1)
    \o WireRecord(NameA, TypeA, ClassIN, 1, 4, Addr2)
\* one answer that lives two seconds
RespAnswerLong ==
    WireHeader(4660, 33152, 0, 1, 0, 0)
    \o WireRecord(NameA, TypeA, ClassIN, 2, 4, Addr2)
\* two answers, the first of type AAAA and the second, with the smaller
\* TTL, of type A
RespAnswerMixed ==
    WireHeader(4660, 33152, 0, 2, 0, 0)
    \o WireRecord(NameN, TypeAAAA, ClassIN, 2, 16, Addr6)
    \o WireRecord(NameN, TypeA, ClassIN, 1, 4, Addr2)
\* a referral with glue: one NS authority, one A additional
RespGlue ==
    WireHeader(4660, 32768, 0, 0, 1, 1)
    \o WireRecord(NameA, TypeNS, ClassIN, 5, 3, WireName(NameN))
    \o WireRecord(NameN, TypeA, ClassIN, 5, 4, Addr2)
\* a referral whose first additional is AAAA and whose second is the A
RespGlueSecond ==
    WireHeader(4660, 32768, 0, 0, 1, 2)
    \o WireRecord(NameA, TypeNS, ClassIN, 5, 3, WireName(NameN))
    \o WireRecord(NameN, TypeAAAA, ClassIN, 5, 16, Addr6)
    \o WireRecord(NameN, TypeA, ClassIN, 5, 4, Addr1)
\* a referral whose A additional has rdlength 0
RespGlueEmpty ==
    WireHeader(4660, 32768, 0, 0, 1, 1)
    \o WireRecord(NameA, TypeNS, ClassIN, 5, 3, WireName(NameN))
    \o WireRecord(NameN, TypeA, ClassIN, 5, 0, << >>)
\* a referral without glue: two NS authorities
RespNoGlue ==
    WireHeader(4660, 32768, 0, 0, 2, 0)
    \o WireRecord(NameA, TypeNS, ClassIN, 5, 3, WireName(NameN))
    \o WireRecord(NameA, TypeNS, ClassIN, 5, 3, WireName(NameM))
\* a referral without glue: one NS authority
RespNoGlueOne ==
    WireHeader(4660, 32768, 0, 0, 1, 0)
    \o WireRecord(NameA, TypeNS, ClassIN, 5, 3, WireName(NameN))
\* neither answers nor authority
RespNothing == WireHeader(4660, 32768, 0, 0, 0, 0)
\* not a DNS message
RespGarbage == << 1, 2, 3 >>

\* what the direct callers of the cache store: the answer lists of upstream
\* responses, as the decoder gives them
CacheRecordSets == {DNSPacket(r).answers : r \in {RespAnswerOne, RespAnswerTwo, RespAnswerLong}}

CacheDomains == {NameA}

CacheTypes == {TypeA, TypeAAAA}

\* a query with one question of the given type and class
WireQuery(type, class) ==
    WireHeader(4660, 256, 1, 0, 0, 0) \o WireQuestion(NameA, type, class)

\* a response with one answer record of the given type and class; the rdata
\* is a name, an IPv4 or an IPv6 address as the type asks, and four bytes
\* for a type the source does not know
WireAnswer(type, class) ==
    WireHeader(4660, 33152, 0, 1, 0, 0)
    \o IF type = TypeNS \/ type = TypePTR
       THEN WireRecord(NameA, type, class, 5, 3, WireName(NameN))
       ELSE IF type = TypeAAAA THEN WireRecord(NameA, type, class, 5, 16, Addr6)
       ELSE WireRecord(NameA, type, class, 5, 4, Addr1)

\* the types of DNSRecordType and 15 (MX), which is outside it
WireTypes == {TypeA, TypeNS, TypePTR, TypeAAAA, 15}

\* the class of DNSClass and 3 (CH), which is outside it
WireClasses == {ClassIN, 3}

Responses ==
    {RespAnswerOne, RespAnswerMixed, RespGlue, RespGlueSecond, RespGlueEmpty,
     RespNoGlue, RespNoGlueOne, RespNothing, RespGarbage}

\* the byte strings given to the codec on its own
\* the root name on the wire: no label, the zero byte
WireRootName == << 0 >>

\* a response to a question for the name servers of the root
RespRootNS ==
    WireHeader(4660, 33152, 1, 1, 0, 0)
    \o WireRootName \o Pack16(TypeNS) \o Pack16(ClassIN)
    \o WireRootName \o Pack16(TypeNS) \o Pack16(ClassIN) \o Pack32(5)
    \o Pack16(3) \o WireName(NameN)
\* two questions and their two answers, in the order of the questions
RespFull ==
    WireHeader(4660, 33152, 2, 2, 0, 0)
    \o WireQuestion(NameA, TypeA, ClassIN) \o WireQuestion(NameB, TypeA, ClassIN)
    \o WireRecord(NameA, TypeA, ClassIN, 5, 4, Addr1)
    \o WireRecord(NameB, TypeA, ClassIN, 5, 4, Addr2)
\* an A record whose rdlength is 8
RespWideA ==
    WireHeader(4660, 33152, 0, 1, 0, 0)
    \o WireRecord(NameA, TypeA, ClassIN, 5, 8, Addr1 \o Addr2)
\* an AAAA record whose rdlength is 17 and whose 16 bytes of rdata end the
\* datagram
RespOddAAAA ==
    WireHeader(4660, 33152, 0, 1, 0, 0)
    \o WireRecord(NameA, TypeAAAA, ClassIN, 5, 17, Addr6)
\* a question whose name is a compression pointer to offset 18, after the
\* question, where the name "a" is
ReqForwardPointer ==
    WireHeader(4663, 256, 1, 0, 0, 0) \o << 192, 18 >> \o Pack16(TypeA)
    \o Pack16(ClassIN) \o WireName(NameA)

FramingInputs ==
    {RespRootNS, RespFull, RespWideA, RespOddAAAA, ReqForwardPointer}

CodecInputs ==
    Requests \cup Responses \cup FramingInputs
    \cup {WireQuery(type, class) : type \in WireTypes, class \in WireClasses}
    \cup {WireAnswer(type, class) : type \in WireTypes, class \in WireClasses}

\* ------------------------------------------------------------------------
\* Resolver (resolver_dns.py)
\* ------------------------------------------------------------------------

\* One active call of recursive_resolve.  kind says who called it and what
\* the caller does with its result: "top" is _process_question; "tail" is a
\* `return self.recursive_resolve(dns_query, ip)` of
\* _handle_authoritative_records, whose caller returns the same result;
\* "ns" is _resolve_name_to_ips, whose caller goes on with its loop over the
\* authority records.  response and auth_index are those of the call's own
\* _handle_authoritative_records, once it is in it.
Frame(dns_query, kind) ==
    [dns_query |-> dns_query, kind |-> kind, response |-> << >>, auth_index |-> 0]

\* An exception leaves recursive_resolve and every caller of it
Raised == [kind |-> "done", outcome |-> "exception", result |-> << >>]

\* `target_server_ip or self.root_server_ip`: None and "" are both false
IpOr(target_server_ip, root_ip) ==
    IF target_server_ip = << >> THEN root_ip ELSE target_server_ip

\* `target_server_port or self.root_server_port`: only 0 (and None) is false
PortOr(target_server_port, root_port) ==
    IF target_server_port # 0 THEN target_server_port ELSE root_port

\* sock.connect((server_ip, server_port)) of the AF_INET socket of
\* _query_dns_server takes server_ip: it raises socket.gaierror on the text
\* of an IPv6 address, which is the one with a colon in it
Connects(server_ip) == \A i \in 1..Len(server_ip) : server_ip[i] # Colon

\* The call recursive_resolve(dns_query, target_server_ip): either the
\* interpreter's recursion limit ends it, or connect raises, or it runs to
\* the recv of _query_dns_server.  Every caller in the source leaves the port
\* parameter at its default.
Enter(frames, dns_query, target_server_ip, kind, root_port) ==
    IF Len(frames) >= MaxResolveDepth \/ ~Connects(target_server_ip) THEN Raised
    ELSE [kind |-> "wait",
          stack |-> Append(frames, Frame(dns_query, kind)),
          sent |-> [request |-> dns_query,
                    server_ip |-> IpOr(target_server_ip, RootServerIp),
                    server_port |-> PortOr(DefaultPort, root_port),
                    kind |-> kind]]

\* the records of type A among records, in order
RECURSIVE TypeARecords(_)
TypeARecords(records) ==
    IF Len(records) = 0 THEN << >>
    ELSE IF records[1].record_type = TypeA
    THEN << records[1] >> \o TypeARecords(Tail(records))
    ELSE TypeARecords(Tail(records))

\* The additional record _handle_authoritative_records takes as glue: the
\* first one of type A in wire order
GlueRecord(additional_records) == TypeARecords(additional_records)[1]

RECURSIVE Authority(_, _, _)
RECURSIVE Return(_, _, _)

\* _resolve_name_to_ips for authority record number i, its query built
NsLookup(frames, i, root_port, query) ==
    IF query.status # "ok" THEN Raised
    ELSE Enter([frames EXCEPT ![Len(frames)].auth_index = i],
               query.packet, << >>, "ns", root_port)

\* The loop of _handle_authoritative_records at authority record number i
\* (1-based) of response_packet
AuthorityLoop(frames, i, root_port, response_packet) ==
    IF i > Len(response_packet.authority_records)
    THEN Return(frames, << >>, root_port)
    ELSE IF TypeARecords(response_packet.additional_records) # << >>
    THEN Enter(frames, frames[Len(frames)].dns_query,
               GlueRecord(response_packet.additional_records).data, "tail", root_port)
    ELSE NsLookup(frames, i, root_port,
             build_query_packet(response_packet.header.packet_id,
                                response_packet.authority_records[i].data,
                                TypeA, ClassIN))

\* _handle_authoritative_records of the innermost call, from authority record
\* number i on.  The call's frame holds the response.
Authority(frames, i, root_port) ==
    AuthorityLoop(frames, i, root_port, DNSPacket(frames[Len(frames)].response))

\* The innermost call returns result: << >> for None, << response >> for a
\* packet with answers.  A caller of kind "ns" is _resolve_name_to_ips and,
\* after it, the loop of the call below.
Return(frames, result, root_port) ==
    LET top == frames[Len(frames)]
        callers == SubSeq(frames, 1, Len(frames) - 1)
    IN IF top.kind = "top"
       THEN [kind |-> "done", outcome |-> "returned", result |-> result]
       ELSE IF top.kind = "tail"
       THEN Return(callers, result, root_port)
       ELSE IF result # << >>
       THEN Enter(callers, callers[Len(callers)].dns_query,
                  DNSPacket(result[1]).answers[1].data, "tail", root_port)
       ELSE Authority(callers, callers[Len(callers)].auth_index + 1, root_port)

\* recursive_resolve after DNSPacket(response) was built
OnPacket(frames, response, root_port, response_packet) ==
    IF response_packet.status = "hang"
    THEN [kind |-> "hang"]
    ELSE IF response_packet.status # "ok" THEN Raised
    ELSE IF response_packet.header.answers_count > 0
    THEN Return(frames, << response >>, root_port)
    ELSE IF response_packet.header.authority_count > 0
    THEN Authority([frames EXCEPT ![Len(frames)].response = response], 1, root_port)
    ELSE Return(frames, << >>, root_port)

\* recursive_resolve after _query_dns_server returned response
OnResponse(frames, response, root_port) ==
    OnPacket(frames, response, root_port, DNSPacket(response))

\* ------------------------------------------------------------------------
\* Server loop (server.py)
\* ------------------------------------------------------------------------

\* request[:2]
FirstTwo(datagram) == SubSeq(datagram, 1, Min(2, Len(datagram)))

\* the except branch of _handle_client: what sendto gives the client
ErrorReply(datagram) ==
    [kind |-> "error", packet |-> create_error_response(FirstTwo(datagram))]

\* `return cached_records[1]` of _process_question, where cached_records is
\* the record list get_records returned, and then
\* `total_a_records.extend(records)` of _handle_client: index 1 of a list of
\* one record raises IndexError; of a longer list it is one record, not a
\* list, and extend raises TypeError on it
HitOutcome(cached_records) ==
    IF Len(cached_records) < 2 THEN "IndexError" ELSE "TypeError"

\* the end of _handle_client, build_response_packet ended as response
Respond(datagram, cache, log, total, qi, response) ==
    [kind |-> "reply",
     reply |-> IF response.status = "ok"
               THEN [kind |-> "response", packet |-> response.packet]
               ELSE ErrorReply(datagram),
     cache |-> cache, qlog |-> log, total |-> total, qindex |-> qi]

\* an exception reaches the except branch of _handle_client
Fail(datagram, cache, log, total, qi) ==
    [kind |-> "reply", reply |-> ErrorReply(datagram),
     cache |-> cache, qlog |-> log, total |-> total, qindex |-> qi]

\* _process_question on a miss, build_query_packet ended as query: the call
\* of recursive_resolve
Resolve(datagram, cache, log, total, qi, root_port, query) ==
    IF query.status # "ok" THEN Fail(datagram, cache, log, total, qi)
    ELSE [kind |-> "wait",
          call |-> Enter(<< >>, query.packet, << >>, "top", root_port),
          cache |-> cache, qlog |-> log, total |-> total, qindex |-> qi]

\* _process_question, get_records returned cached
Lookup(datagram, packet, qi, total, log, root_port, cached) ==
    IF cached.hit
    THEN Fail(datagram, cached.cache,
              Append(log, [how |-> HitOutcome(cached.records),
                           records |-> cached.records]),
              total, qi)
    ELSE Resolve(datagram, cached.cache, log, total, qi, root_port,
             build_query_packet(packet.header.packet_id, packet.questions[qi].domain,
                                packet.questions[qi].record_type,
                                packet.questions[qi].record_class))

\* _handle_client from question number qi on, up to the reply or to the
\* recv of the resolver.  log gets one entry per question gone through.
Process(datagram, packet, qi, total, cache, log, now_time, root_port) ==
    IF qi > Len(packet.questions)
    THEN Respond(datagram, cache, log, total, qi,
             build_response_packet(packet.header, packet.questions, total))
    ELSE Lookup(datagram, packet, qi, total, log, root_port,
             get_records(cache, now_time, packet.questions[qi].domain,
                         packet.questions[qi].record_type))

NoReply == [kind |-> "none", packet |-> << >>]

NoSend == [request |-> << >>, server_ip |-> << >>, server_port |-> 0, kind |-> "none"]

NoReceive ==
    [response |-> << >>, query |-> << >>, kind |-> "none", only_referrals |-> FALSE]

\* _run_cache_cleanup in time.sleep, or not yet started
SweeperAsleep ==
    [pc |-> "sleep", domains |-> {}, types |-> {}, domain |-> << >>, q_type |-> 0]

\* the handler outside the cache; result is how its last call ended
HandlerIdle(result) ==
    [pc |-> "idle", domain |-> << >>, q_type |-> 0, records |-> << >>,
     result |-> result]

NoRemoved == [by |-> "none", cached_time |-> 0, records |-> << >>, at |-> 0]

\* no call of build_response_packet yet
NotBuilt == [status |-> "none", packet |-> << >>]

\* no file at the path of the cache file
NoFile == [kind |-> "missing", map |-> EmptyMap]

\* A Server whose construction has ended and whose run loop is in recvfrom:
\* _handle_flag set, the socket bound, the sweeper started; found is what
\* initialize_cache met at the path of the cache file.
Serving ==
    [pc |-> "running", handle_flag |-> TRUE, socket_open |-> TRUE,
     sweeper_alive |-> TRUE, joined |-> FALSE, found |-> "missing",
     raised |-> "none"]


NoCacheOp ==
    [op |-> "none", domain |-> << >>, record_type |-> 0, before |-> EmptyMap,
     at |-> 0, hit |-> FALSE, records |-> << >>]

\* The server thread takes the outcome p of Process
Proceed(p) ==
    /\ cache_data' = p.cache
    /\ qlog' = p.qlog
    /\ total_a_records' = p.total
    /\ qindex' = p.qindex
    /\ IF p.kind = "reply"
       THEN /\ pc' = "idle"
            /\ reply' = p.reply
            /\ stack' = << >>
            /\ UNCHANGED last_sent
       ELSE /\ pc' = "wait"
            /\ reply' = NoReply
            /\ stack' = p.call.stack
            /\ last_sent' = p.call.sent

\* _handle_client after DNSPacket(request) ended as packet
HandleClient(datagram, packet) ==
    IF packet.status = "hang"
    THEN /\ pc' = "hung"
         /\ reply' = NoReply
         /\ qlog' = << >>
         /\ qindex' = 0
         /\ total_a_records' = << >>
         /\ UNCHANGED << cache_data, stack, last_sent >>
    ELSE IF packet.status # "ok"
    THEN /\ pc' = "idle"
         /\ reply' = ErrorReply(datagram)
         /\ qlog' = << >>
         /\ qindex' = 0
         /\ total_a_records' = << >>
         /\ UNCHANGED << cache_data, stack, last_sent >>
    ELSE Proceed(Process(datagram, packet, 1, << >>, cache_data, << >>, now,
                         root_server_port))

\* recvfrom returns datagram; _handle_client runs to its reply, to the recv
\* of the resolver, or into a loop of the decoder that does not end
ReceiveRequest(datagram) ==
    /\ pc = "idle"
    /\ request' = datagram
    /\ event' = "request"
    /\ HandleClient(datagram, DNSPacket(datagram))
    /\ UNCHANGED << root_server_port, now, last_received, cache_op >>
    /\ UNCHANGED codecVars
    /\ UNCHANGED threadVars
    /\ UNCHANGED lifeVars

\* `if answer and answer.answers` of _process_question: the records it adds
\* to the cache and returns
Answers(outcome, result) ==
    IF outcome = "returned" /\ result # << >> THEN DNSPacket(result[1]).answers
    ELSE << >>

\* how the question ended, for qlog
How(outcome, answers) ==
    IF outcome = "exception" THEN "failed"
    ELSE IF answers = << >> THEN "miss" ELSE "resolved"

\* self._cacher.add_records(question.domain, question.record_type,
\* answer.answers), when there are answers
Cached(question, answers) ==
    IF answers # << >>
    THEN add_records(cache_data, now, question.domain, question.record_type, answers)
    ELSE cache_data

\* _process_question after recursive_resolve ended, then the rest of
\* _handle_client
Finish(packet, outcome, answers) ==
    Proceed(Process(request, packet, qindex + 1, total_a_records \o answers,
                    Cached(packet.questions[qindex], answers),
                    Append(qlog, [how |-> How(outcome, answers), records |-> answers]),
                    now, root_server_port))

FinishQuestion(outcome, result) ==
    Finish(DNSPacket(request), outcome, Answers(outcome, result))

\* the server thread after recursive_resolve went on to r
Resolved(r) ==
    IF r.kind = "hang"
    THEN /\ pc' = "hung"
         /\ UNCHANGED << cache_data, qlog, total_a_records, qindex, reply, stack,
                         last_sent >>
    ELSE IF r.kind = "wait"
    THEN /\ pc' = "wait"
         /\ stack' = r.stack
         /\ last_sent' = r.sent
         /\ UNCHANGED << cache_data, qlog, total_a_records, qindex, reply >>
    ELSE FinishQuestion(r.outcome, r.result)

\* response has no answers and one authority record: a referral
IsReferral(response_packet) ==
    /\ response_packet.status = "ok"
    /\ response_packet.header.answers_count = 0
    /\ response_packet.header.authority_count = 1

\* response and every response before it to the queries of the resolution
\* under way were referrals.  The first call of a resolution is alone on the
\* stack when its response comes, and every later one has a caller.
OnlyReferrals(response) ==
    /\ IsReferral(DNSPacket(response))
    /\ Len(stack) = 1 \/ last_received.only_referrals

\* sock.recv of _query_dns_server returns response
UpstreamReply(response) ==
    /\ pc = "wait"
    /\ event' = "reply"
    /\ last_received' = [response |-> response, query |-> stack[Len(stack)].dns_query,
                         kind |-> stack[Len(stack)].kind,
                         only_referrals |-> OnlyReferrals(response)]
    /\ Resolved(OnResponse(stack, response, root_server_port))
    /\ UNCHANGED << root_server_port, now, request, cache_op >>
    /\ UNCHANGED codecVars
    /\ UNCHANGED threadVars
    /\ UNCHANGED lifeVars

\* _query_dns_server raises: the 5 second timeout of recv, or a socket error
UpstreamFails ==
    /\ pc = "wait"
    /\ event' = "timeout"
    /\ FinishQuestion("exception", << >>)
    /\ UNCHANGED << root_server_port, now, request, last_received, cache_op >>
    /\ UNCHANGED codecVars
    /\ UNCHANGED threadVars
    /\ UNCHANGED lifeVars

\* one second passes
Tick ==
    /\ now % SecondsPerDay < MaxNow
    /\ now' = now + 1
    /\ event' = "tick"
    /\ cache_op' = NoCacheOp
    /\ UNCHANGED << cache_data >>
    /\ UNCHANGED serverVars
    /\ UNCHANGED codecVars
    /\ UNCHANGED threadVars
    /\ UNCHANGED lifeVars

\* The cleanup thread, one entry of one pass of _run_cache_cleanup: the
\* check of _records_expired and the removal
Sweep(domain, q_type) ==
    /\ HasEntry(cache_data, domain, q_type)
    /\ records_expired(cache_data, now, domain, q_type)
    /\ cache_data' = remove_expired_records(cache_data, domain, q_type)
    /\ event' = "sweep"
    /\ cache_op' = NoCacheOp
    /\ UNCHANGED << now >>
    /\ UNCHANGED serverVars
    /\ UNCHANGED codecVars
    /\ UNCHANGED threadVars
    /\ UNCHANGED lifeVars

Init ==
    /\ root_server_port \in RootPorts
    /\ cache_data = EmptyMap
    /\ now = 0
    /\ pc = "idle"
    /\ request = << >>
    /\ qindex = 0
    /\ total_a_records = << >>
    /\ stack = << >>
    /\ reply = NoReply
    /\ qlog = << >>
    /\ last_sent = NoSend
    /\ last_received = NoReceive
    /\ event = "init"
    /\ cache_op = NoCacheOp
    /\ wire = << >>
    /\ decoded = [status |-> "none"]
    /\ built = << >>
    /\ rebuilt = NotBuilt
    /\ lock = "none"
    /\ sweeper = SweeperAsleep
    /\ handler = HandlerIdle("none")
    /\ removed = NoRemoved
    /\ cache_file = NoFile
    /\ life = Serving

Next ==
    \/ \E datagram \in Requests : ReceiveRequest(datagram)
    \/ \E response \in Responses : UpstreamReply(response)
    \/ UpstreamFails
    \/ Tick
    \/ \E domain \in DOMAIN cache_data : \E q_type \in DOMAIN cache_data[domain] :
           Sweep(domain, q_type)

\* The server: the thread of run() and the cleanup thread of the cache
Spec == Init /\ [][Next]_vars

\* ------------------------------------------------------------------------
\* The cache on its own: the calls of DNSCache in any order
\* ------------------------------------------------------------------------

\* add_records(domain, q_type, records) at the time now
CacheAdd(domain, q_type, records) ==
    /\ cache_data' = add_records(cache_data, now, domain, q_type, records)
    /\ cache_op' = [op |-> "add", domain |-> domain, record_type |-> q_type,
                    before |-> cache_data, at |-> now, hit |-> FALSE,
                    records |-> records]
    /\ event' = "add"
    /\ UNCHANGED << now >>
    /\ UNCHANGED serverVars
    /\ UNCHANGED codecVars
    /\ UNCHANGED threadVars
    /\ UNCHANGED lifeVars

\* the caller of get_records(domain, q_type) takes its result r
CacheGot(domain, q_type, r) ==
    /\ cache_data' = r.cache
    /\ cache_op' = [op |-> "get", domain |-> domain, record_type |-> q_type,
                    before |-> cache_data, at |-> now, hit |-> r.hit,
                    records |-> r.records]

\* get_records(domain, q_type) at the time now
CacheGet(domain, q_type) ==
    /\ CacheGot(domain, q_type, get_records(cache_data, now, domain, q_type))
    /\ event' = "get"
    /\ UNCHANGED << now >>
    /\ UNCHANGED serverVars
    /\ UNCHANGED codecVars
    /\ UNCHANGED threadVars
    /\ UNCHANGED lifeVars

\* a whole day passes
TickDay ==
    /\ now < MaxDays * SecondsPerDay
    /\ now' = now + SecondsPerDay
    /\ event' = "day"
    /\ cache_op' = NoCacheOp
    /\ UNCHANGED << cache_data >>
    /\ UNCHANGED serverVars
    /\ UNCHANGED codecVars
    /\ UNCHANGED threadVars
    /\ UNCHANGED lifeVars

NextCache ==
    \/ \E domain \in CacheDomains : \E q_type \in CacheTypes :
           \E records \in CacheRecordSets : CacheAdd(domain, q_type, records)
    \/ \E domain \in CacheDomains : \E q_type \in CacheTypes : CacheGet(domain, q_type)
    \/ \E domain \in DOMAIN cache_data : \E q_type \in DOMAIN cache_data[domain] :
           Sweep(domain, q_type)
    \/ Tick
    \/ TickDay

SpecCache == Init /\ [][NextCache]_vars

\* ------------------------------------------------------------------------
\* The codec on its own: one byte string decoded, one error response built
\* ------------------------------------------------------------------------

InitCodec ==
    /\ root_server_port \in RootPorts
    /\ cache_data = EmptyMap
    /\ now = 0
    /\ pc = "idle"
    /\ request = << >>
    /\ qindex = 0
    /\ total_a_records = << >>
    /\ stack = << >>
    /\ reply = NoReply
    /\ qlog = << >>
    /\ last_sent = NoSend
    /\ last_received = NoReceive
    /\ event = "init"
    /\ cache_op = NoCacheOp
    /\ wire \in CodecInputs
    /\ decoded = [status |-> "none"]
    /\ built = << >>
    /\ rebuilt = NotBuilt
    /\ lock = "none"
    /\ sweeper = SweeperAsleep
    /\ handler = HandlerIdle("none")
    /\ removed = NoRemoved
    /\ cache_file = NoFile
    /\ life = Serving

\* DNSPacket(wire)
Decode ==
    /\ decoded.status = "none"
    /\ decoded' = DNSPacket(wire)
    /\ event' = "decode"
    /\ UNCHANGED << wire, built, rebuilt, cache_data, now, cache_op >>
    /\ UNCHANGED serverVars
    /\ UNCHANGED threadVars
    /\ UNCHANGED lifeVars

\* create_error_response(wire[:2])
BuildError ==
    /\ built = << >>
    /\ built' = create_error_response(FirstTwo(wire))
    /\ event' = "build"
    /\ UNCHANGED << wire, decoded, rebuilt, cache_data, now, cache_op >>
    /\ UNCHANGED serverVars
    /\ UNCHANGED threadVars
    /\ UNCHANGED lifeVars

\* build_response_packet(p.header, p.questions, p.answers) for the decoded
\* packet p, as _handle_client calls it
Rebuild ==
    /\ decoded.status = "ok"
    /\ rebuilt.status = "none"
    /\ rebuilt' = build_response_packet(decoded.header, decoded.questions,
                                        decoded.answers)
    /\ event' = "rebuild"
    /\ UNCHANGED << wire, decoded, built, cache_data, now, cache_op >>
    /\ UNCHANGED serverVars
    /\ UNCHANGED threadVars
    /\ UNCHANGED lifeVars

NextCodec ==
    \/ Decode
    \/ BuildError
    \/ Rebuild

SpecCodec == InitCodec /\ [][NextCodec]_vars

\* ------------------------------------------------------------------------
\* Properties
\* ------------------------------------------------------------------------

\* min(record.ttl for record in records)
RECURSIVE MinTtl(_)
MinTtl(records) ==
    IF Len(records) = 1 THEN records[1].ttl
    ELSE Min(records[1].ttl, MinTtl(Tail(records)))

\* the entry is fresh at the time at: less than its smallest TTL has passed
\* since it was inserted, whole days counted
Fresh(entry, at) == at - entry.cached_time < MinTtl(entry.records)

\* what C1 asks of a get_records that found entry under its key
FreshnessOnRead(entry) ==
    IF Fresh(entry, cache_op.at)
    THEN cache_op.hit /\ cache_op.records = entry.records
    ELSE /\ ~cache_op.hit
         /\ ~HasEntry(cache_data, cache_op.domain, cache_op.record_type)

\* C1: a get_records on a key that has an entry returns the entry's records
\* if less than the smallest TTL has passed since the insertion, whatever the
\* time passed (a day or more included), and otherwise returns a miss and
\* leaves the map without the entry.
C1_FreshnessOnRead ==
    (cache_op.op = "get" /\ HasEntry(cache_op.before, cache_op.domain, cache_op.record_type))
        => FreshnessOnRead(cache_op.before[cache_op.domain][cache_op.record_type])

\* the server is back in recvfrom after it handled request
Handled == pc = "idle" /\ event # "init" /\ reply.kind # "none"

\* the entry of qlog is a question that found a fresh entry in the cache
IsHit(entry) == entry.how \in {"IndexError", "TypeError"}

\* the records of the entries of log, in order
RECURSIVE LogRecords(_)
LogRecords(log) ==
    IF Len(log) = 0 THEN << >> ELSE log[1].records \o LogRecords(Tail(log))

\* the normal response to request that carries records
NormalResponse(packet, records) ==
    [kind |-> "response",
     packet |-> build_response_packet(packet.header, packet.questions, records).packet]

\* C2: a request with a question that the cache holds a fresh entry for gets
\* a normal response, not an error response, which carries the cached
\* records of that question in order.
C2_CacheHitServed ==
    (Handled /\ \E i \in 1..Len(qlog) : IsHit(qlog[i]))
        => reply = NormalResponse(DNSPacket(request), LogRecords(qlog))

\* C3: whatever the datagram, the server does not stay without a reply, and
\* the reply it sends has at least the 12 bytes of a header, the first two
\* of them the first two bytes of the request.
C3_ReplyWellFormed ==
    /\ pc # "hung"
    /\ reply.kind # "none"
           => /\ Len(reply.packet) >= HeaderSize
              /\ FirstTwo(reply.packet) = FirstTwo(request)

\* C4: the error response to a request of two bytes or more is 12 bytes:
\* the first two bytes of the request, the flags word 0x8004 (32772), and
\* four counts of zero.
C4_ErrorResponseBytes ==
    (built # << >> /\ Len(wire) >= 2)
        => /\ Len(built) = HeaderSize
           /\ FirstTwo(built) = FirstTwo(wire)
           /\ SubSeq(built, Len(built) - 9, Len(built))
                  = Pack16(32772) \o Pack16(0) \o Pack16(0) \o Pack16(0) \o Pack16(0)

\* C5: a resolution whose upstream answers every query with a referral
\* ends, and ends in a miss: recursive_resolve returns None.
C5_ReferralLoopEndsInMiss ==
    (event = "reply" /\ last_received.only_referrals /\ stack = << >>)
        => qlog[Len(qlog)].how = "miss"

\* C6: the first query of a resolution, of a client's question and of the
\* A-lookup of a name server's name alike, goes to the configured root
\* server address and the configured root server port.
C6_FirstQueryToConfiguredRoot ==
    last_sent.kind \in {"top", "ns"}
        => /\ last_sent.server_ip = RootServerIp
           /\ last_sent.server_port = root_server_port

\* what C7 asks of an add_records that found entry under its key
FirstWriterWins(entry) ==
    IF Fresh(entry, cache_op.at)
    THEN cache_data = cache_op.before
    ELSE /\ HasEntry(cache_data, cache_op.domain, cache_op.record_type)
         /\ cache_data[cache_op.domain][cache_op.record_type].records = cache_op.records

\* C7: an add_records on a key that has an entry leaves the whole map as it
\* was while the entry has not expired, and once it has expired the map
\* holds the new records under the key.
C7_FirstWriterWins ==
    (cache_op.op = "add" /\ HasEntry(cache_op.before, cache_op.domain, cache_op.record_type))
        => FirstWriterWins(cache_op.before[cache_op.domain][cache_op.record_type])

\* C8: when the resolution of one question of a request failed, every
\* question of the request was gone through, the failed one added no
\* records, and the client got a normal response with the records of the
\* other questions.
C8_FailureIsolated ==
    (Handled /\ \E i \in 1..Len(qlog) : qlog[i].how = "failed")
        => /\ Len(qlog) = DNSPacket(request).header.questions_count
           /\ \A i \in 1..Len(qlog) : qlog[i].how = "failed" => qlog[i].records = << >>
           /\ reply = NormalResponse(DNSPacket(request), LogRecords(qlog))

\* the types of DNSRecordType
KnownTypes == {TypeA, TypeNS, TypePTR, TypeAAAA}

\* wire is a packet with a question or a record of a type outside
\* DNSRecordType or of a class other than IN
CarriesUnknown ==
    \E type \in WireTypes : \E class \in WireClasses :
        /\ type \notin KnownTypes \/ class # ClassIN
        /\ wire \in {WireQuery(type, class), WireAnswer(type, class)}

\* C9: the decoder fails a packet that has a question or a record of a type
\* outside {1, 2, 12, 28} or of a class other than 1.
C9_UnknownTypeOrClassFails ==
    (decoded.status # "none" /\ CarriesUnknown) => decoded.status = "error"

\* the upstream response is a referral with glue: no answers, authority
\* records, and an additional record of type A
IsGlueReferral(response_packet) ==
    /\ response_packet.status = "ok"
    /\ response_packet.header.answers_count = 0
    /\ response_packet.header.authority_count > 0
    /\ TypeARecords(response_packet.additional_records) # << >>

\* the query that follows the referral response_packet is the query the
\* referral answered, sent to the address of its first additional A record
SentToGlue(response_packet) ==
    /\ pc = "wait"
    /\ last_sent.request = last_received.query
    /\ last_sent.server_ip = GlueRecord(response_packet.additional_records).data

GlueFollowed(response_packet) ==
    IsGlueReferral(response_packet) => SentToGlue(response_packet)

\* C10: after a referral with glue came in, the next query is the original
\* query, sent to the address of the first additional record of type A.
C10_GlueFollowed ==
    event = "reply" => GlueFollowed(DNSPacket(last_received.response))

\* the upstream response is a referral without glue: no answers, authority
\* records, and no additional record of type A
IsBareReferral(response_packet) ==
    /\ response_packet.status = "ok"
    /\ response_packet.header.answers_count = 0
    /\ response_packet.header.authority_count > 0
    /\ TypeARecords(response_packet.additional_records) = << >>

\* the query that follows the referral response_packet asks the root for
\* the A records of the name of its first authority record
SentNsLookup(response_packet) ==
    /\ pc = "wait"
    /\ last_sent.kind = "ns"
    /\ last_sent.server_ip = RootServerIp
    /\ last_sent.request
           = build_query_packet(response_packet.header.packet_id,
                                response_packet.authority_records[1].data,
                                TypeA, ClassIN).packet

\* response_packet, which answers the A-lookup of a name server's name, has
\* an answer of type A
HasAddress(response_packet) ==
    /\ response_packet.status = "ok"
    /\ response_packet.header.answers_count > 0
    /\ TypeARecords(response_packet.answers) # << >>

\* the query that follows the answer response_packet to an A-lookup is the
\* query of the call that made the lookup, sent to the address of the first
\* answer of type A
SentToResolved(response_packet) ==
    /\ pc = "wait"
    /\ last_sent.kind = "tail"
    /\ last_sent.request = stack[Len(stack) - 1].dns_query
    /\ last_sent.server_ip = TypeARecords(response_packet.answers)[1].data

BareReferralFollowed(response_packet) ==
    /\ IsBareReferral(response_packet) => SentNsLookup(response_packet)
    /\ (last_received.kind = "ns" /\ HasAddress(response_packet))
           => SentToResolved(response_packet)

\* C11: after a referral without glue came in, the next query asks the root
\* for the A records of the first authority record's name; and after the
\* answer to that lookup came in, the next query is the original query, sent
\* to the address of the first answer of type A.
C11_BareReferralFollowed ==
    event = "reply" => BareReferralFollowed(DNSPacket(last_received.response))

\* ------------------------------------------------------------------------
\* The threads of the cache: the handler's calls of get_records and
\* add_records and the cleanup thread, one step per access to the map
\* ------------------------------------------------------------------------

\* what the handler's thread puts into the cache
ThreadRecordSets == {DNSPacket(RespAnswerOne).answers}

\* self.cache_data[domain].pop(query_type)
PopType(cache, domain, query_type) ==
    MapSet(cache, domain, MapPop(cache[domain], query_type))

\* an eviction without lines 76-77: the domain stays, whatever is left of it
KeepDomain(cache, domain) == cache

\* if not self.cache_data[domain]: self.cache_data.pop(domain)
PopEmptyDomain(cache, domain) ==
    IF DOMAIN cache[domain] = {} THEN MapPop(cache, domain) ELSE cache

\* the entry a pop removes, for the record of it
Removed(by, entry) ==
    [by |-> by, cached_time |-> entry.cached_time, records |-> entry.records,
     at |-> now]

\* the steps of the other specifications stay still
ThreadFrame ==
    /\ event' = "thread"
    /\ UNCHANGED << now, cache_op >>
    /\ UNCHANGED serverVars
    /\ UNCHANGED codecVars
    /\ UNCHANGED lifeVars

\* the handler's call ends: it returned or raised result
HandlerEnds(result) == handler' = HandlerIdle(result)

\* the handler's call goes on at the line pc_next
HandlerAt(pc_next) == handler' = [handler EXCEPT !.pc = pc_next]

\* get_records(domain, q_type), line 56, left operand of `and`:
\* domain_name in self.cache_data
GetDomain(domain, q_type) ==
    /\ handler.pc = "idle"
    /\ IF domain \in DOMAIN cache_data
       THEN handler' = [pc |-> "get_type", domain |-> domain, q_type |-> q_type,
                        records |-> << >>, result |-> "none"]
       ELSE HandlerEnds("miss")
    /\ removed' = NoRemoved
    /\ UNCHANGED << cache_data, lock, sweeper >>
    /\ ThreadFrame

\* get_records, line 56, right operand: query_type in self.cache_data[domain_name]
GetType ==
    /\ handler.pc = "get_type"
    /\ IF handler.domain \notin DOMAIN cache_data THEN HandlerEnds("KeyError")
       ELSE IF handler.q_type \in DOMAIN cache_data[handler.domain]
       THEN HandlerAt("get_expired")
       ELSE HandlerEnds("miss")
    /\ removed' = NoRemoved
    /\ UNCHANGED << cache_data, lock, sweeper >>
    /\ ThreadFrame

\* get_records, line 57: self._records_expired(domain_name, query_type)
GetExpired ==
    /\ handler.pc = "get_expired"
    /\ IF ~HasEntry(cache_data, handler.domain, handler.q_type)
       THEN HandlerEnds("KeyError")
       ELSE IF records_expired(cache_data, now, handler.domain, handler.q_type)
       THEN HandlerAt("get_remove")
       ELSE HandlerAt("get_read")
    /\ removed' = NoRemoved
    /\ UNCHANGED << cache_data, lock, sweeper >>
    /\ ThreadFrame

\* get_records, line 60: return self.cache_data[domain_name][query_type][1]
GetRead ==
    /\ handler.pc = "get_read"
    /\ IF ~HasEntry(cache_data, handler.domain, handler.q_type)
       THEN HandlerEnds("KeyError")
       ELSE HandlerEnds("hit")
    /\ removed' = NoRemoved
    /\ UNCHANGED << cache_data, lock, sweeper >>
    /\ ThreadFrame

\* get_records, line 58, into _remove_expired_records: the lock taken and
\* line 75; a KeyError leaves the `with` and frees the lock
GetRemove ==
    /\ handler.pc = "get_remove"
    /\ lock = "none"
    /\ IF ~HasEntry(cache_data, handler.domain, handler.q_type)
       THEN /\ HandlerEnds("KeyError")
            /\ removed' = NoRemoved
            /\ UNCHANGED << cache_data, lock >>
       ELSE /\ HandlerAt("get_pop")
            /\ removed' = Removed("handler", cache_data[handler.domain][handler.q_type])
            /\ cache_data' = PopType(cache_data, handler.domain, handler.q_type)
            /\ lock' = "handler"
    /\ UNCHANGED << sweeper >>
    /\ ThreadFrame

\* _remove_expired_records, lines 76-77, the lock freed, and line 59
GetPop ==
    /\ handler.pc = "get_pop"
    /\ cache_data' = PopEmptyDomain(cache_data, handler.domain)
    /\ lock' = "none"
    /\ HandlerEnds("miss")
    /\ removed' = NoRemoved
    /\ UNCHANGED << sweeper >>
    /\ ThreadFrame

\* add_records(domain, q_type, records): the lock taken and lines 44-45
AddDomain(domain, q_type, records) ==
    /\ handler.pc = "idle"
    /\ lock = "none"
    /\ lock' = "handler"
    /\ cache_data' = IF domain \in DOMAIN cache_data THEN cache_data
                     ELSE MapSet(cache_data, domain, EmptyMap)
    /\ handler' = [pc |-> "add_set", domain |-> domain, q_type |-> q_type,
                   records |-> records, result |-> "none"]
    /\ removed' = NoRemoved
    /\ UNCHANGED << sweeper >>
    /\ ThreadFrame

\* add_records, lines 47-48, and the lock freed
AddSet ==
    /\ handler.pc = "add_set"
    /\ cache_data' = add_records(cache_data, now, handler.domain, handler.q_type,
                                 handler.records)
    /\ lock' = "none"
    /\ HandlerEnds("added")
    /\ removed' = NoRemoved
    /\ UNCHANGED << sweeper >>
    /\ ThreadFrame

\* the steps of a call of the cache that has begun
HandlerContinues ==
    GetType \/ GetExpired \/ GetRead \/ GetRemove \/ GetPop \/ AddSet

\* the cleanup thread raised KeyError: nothing catches it in
\* _run_cache_cleanup, and the thread ends
SweeperDead ==
    [pc |-> "dead", domains |-> {}, types |-> {}, domain |-> << >>, q_type |-> 0]

\* the cleanup thread goes on with the next type of its snapshot
SweeperAtTypes == sweeper' = [sweeper EXCEPT !.pc = "types", !.q_type = 0]

\* _run_cache_cleanup, line 66: list(self.cache_data.keys()), at the start
\* of the thread and after each time.sleep(interval)
SweepWake ==
    /\ sweeper.pc = "sleep"
    /\ sweeper' = [sweeper EXCEPT !.pc = "domains", !.domains = DOMAIN cache_data]
    /\ removed' = NoRemoved
    /\ UNCHANGED << cache_data, lock, handler >>
    /\ ThreadFrame

\* line 67 for the domain taken from the snapshot:
\* list(self.cache_data[domain].keys())
SweepTypesOf(domain) ==
    IF domain \notin DOMAIN cache_data THEN sweeper' = SweeperDead
    ELSE sweeper' = [pc |-> "types", domains |-> sweeper.domains \ {domain},
                     types |-> DOMAIN cache_data[domain], domain |-> domain,
                     q_type |-> 0]

\* lines 66-67: the next domain of the snapshot, or line 70 after the last.
\* The map does not keep the order of a dict's keys: any order.
SweepDomain ==
    /\ sweeper.pc = "domains"
    /\ IF sweeper.domains = {} THEN sweeper' = SweeperAsleep
       ELSE \E domain \in sweeper.domains : SweepTypesOf(domain)
    /\ removed' = NoRemoved
    /\ UNCHANGED << cache_data, lock, handler >>
    /\ ThreadFrame

\* line 67: the next type of the snapshot, or back to line 66 after the last
SweepType ==
    /\ sweeper.pc = "types"
    /\ IF sweeper.types = {}
       THEN sweeper' = [sweeper EXCEPT !.pc = "domains", !.domain = << >>]
       ELSE \E q_type \in sweeper.types :
                sweeper' = [sweeper EXCEPT !.pc = "check", !.q_type = q_type,
                                           !.types = sweeper.types \ {q_type}]
    /\ removed' = NoRemoved
    /\ UNCHANGED << cache_data, lock, handler >>
    /\ ThreadFrame

\* line 68: self._records_expired(domain, q_type)
SweepCheck ==
    /\ sweeper.pc = "check"
    /\ IF ~HasEntry(cache_data, sweeper.domain, sweeper.q_type)
       THEN sweeper' = SweeperDead
       ELSE IF records_expired(cache_data, now, sweeper.domain, sweeper.q_type)
       THEN sweeper' = [sweeper EXCEPT !.pc = "remove"]
       ELSE SweeperAtTypes
    /\ removed' = NoRemoved
    /\ UNCHANGED << cache_data, lock, handler >>
    /\ ThreadFrame

\* line 69, into _remove_expired_records: the lock taken and line 75
SweepRemove ==
    /\ sweeper.pc = "remove"
    /\ lock = "none"
    /\ IF ~HasEntry(cache_data, sweeper.domain, sweeper.q_type)
       THEN /\ sweeper' = SweeperDead
            /\ removed' = NoRemoved
            /\ UNCHANGED << cache_data, lock >>
       ELSE /\ sweeper' = [sweeper EXCEPT !.pc = "pop"]
            /\ removed' = Removed("sweeper", cache_data[sweeper.domain][sweeper.q_type])
            /\ cache_data' = PopType(cache_data, sweeper.domain, sweeper.q_type)
            /\ lock' = "sweeper"
    /\ UNCHANGED << handler >>
    /\ ThreadFrame

\* _remove_expired_records, lines 76-77, and the lock freed
SweepPop ==
    /\ sweeper.pc = "pop"
    /\ cache_data' = PopEmptyDomain(cache_data, sweeper.domain)
    /\ lock' = "none"
    /\ SweeperAtTypes
    /\ removed' = NoRemoved
    /\ UNCHANGED << handler >>
    /\ ThreadFrame

\* the steps of the cleanup thread
SweeperSteps ==
    SweepWake \/ SweepDomain \/ SweepType \/ SweepCheck \/ SweepRemove \/ SweepPop

\* one second passes while the threads run
ThreadTick ==
    /\ now < MaxNow
    /\ now' = now + 1
    /\ event' = "tick"
    /\ removed' = NoRemoved
    /\ UNCHANGED << cache_data, cache_op, lock, sweeper, handler >>
    /\ UNCHANGED serverVars
    /\ UNCHANGED codecVars
    /\ UNCHANGED lifeVars

\* what recursive_resolve can give _process_question as answer.answers:
\* records, or no record
ThreadAnswerSets == ThreadRecordSets \cup {<< >>}

\* _process_question, line 117 false: no call of add_records
NotCached ==
    /\ handler.pc = "idle"
    /\ HandlerEnds("not_cached")
    /\ removed' = NoRemoved
    /\ UNCHANGED << cache_data, lock, sweeper >>
    /\ ThreadFrame

\* _process_question, lines 117-118:
\* if answer and answer.answers: self._cacher.add_records(...)
CacheAnswers(domain, q_type, answers) ==
    IF answers # << >> THEN AddDomain(domain, q_type, answers) ELSE NotCached

InitThreads == Init /\ root_server_port = DefaultPort

NextThreads ==
    \/ \E domain \in CacheDomains : \E q_type \in CacheTypes : GetDomain(domain, q_type)
    \/ \E domain \in CacheDomains : \E q_type \in CacheTypes :
           \E answers \in ThreadAnswerSets : CacheAnswers(domain, q_type, answers)
    \/ GetType
    \/ GetExpired
    \/ GetRead
    \/ GetRemove
    \/ GetPop
    \/ AddSet
    \/ SweepWake
    \/ SweepDomain
    \/ SweepType
    \/ SweepCheck
    \/ SweepRemove
    \/ SweepPop
    \/ ThreadTick

\* The threads in any interleaving.  A thread that can take a step takes
\* one in the end: the cleanup thread is not starved, not of the lock
\* either, and a call of the cache that has begun goes on to its end.
SpecThreads ==
    InitThreads /\ [][NextThreads]_vars
    /\ SF_vars(SweeperSteps) /\ WF_vars(HandlerContinues)

\* the map holds an entry under the key whose smallest TTL has passed
Stale(domain, q_type) ==
    /\ HasEntry(cache_data, domain, q_type)
    /\ ~Fresh(cache_data[domain][q_type], now)

\* C12: in any interleaving of the cleanup thread with the handler's calls,
\* an entry whose smallest TTL has passed is removed from the map in the
\* end: the cleanup thread keeps making passes.
C12_SweeperLiveness ==
    \A domain \in CacheDomains : \A q_type \in CacheTypes :
        Stale(domain, q_type) ~> ~HasEntry(cache_data, domain, q_type)


\* the lines of get_records after its first look at the map: the rest of the
\* membership test, the freshness check and the read of the record list
ReaderPath == {"get_type", "get_expired", "get_read"}

\* the lines of add_records and of _remove_expired_records after the first
WriterPath == {"add_set", "get_pop"}

\* C13: a thread that is inside get_records, add_records or an eviction
\* holds the lock of the cache, so that nothing changes the map between the
\* steps of a get.
C13_AccessUnderLock ==
    /\ handler.pc \in ReaderPath \cup WriterPath => lock = "handler"
    /\ sweeper.pc = "pop" => lock = "sweeper"

\* C20: in any interleaving of the handler's calls with the cleanup thread,
\* an entry that _remove_expired_records pops is no longer fresh when it is
\* popped.
C20_OnlyStaleEvicted ==
    removed.by # "none" => ~Fresh(removed, removed.at)


\* ------------------------------------------------------------------------
\* The life of the server: construction, service, interrupt
\* (server.py __init__, _initialize, _close; cache_dns.py initialize_cache,
\* save_cache, shutdown)
\* ------------------------------------------------------------------------

\* pickle.dump of a map, as pickle.load gives it back
Pickled(map) == [kind |-> "pickle", map |-> map]

\* What can be at the path of the cache file when the server starts: nothing,
\* a file of zero bytes, a file with bytes that open() refuses, bytes that are not a
\* pickle, the pickle of a map.
CacheFiles ==
    {NoFile,
     [kind |-> "empty", map |-> EmptyMap],
     [kind |-> "unreadable", map |-> EmptyMap],
     [kind |-> "garbage", map |-> EmptyMap],
     Pickled(EmptyMap)}
    \cup {Pickled(add_records(EmptyMap, 0, NameA, TypeA, records)) :
              records \in CacheRecordSets}

\* DNSCache.initialize_cache on a file: raised is the exception that leaves
\* the method ("none" when it returns), map the cache_data after it, file
\* the file after it.  os.path.getsize raises FileNotFoundError, which is
\* caught; open raises PermissionError and pickle.load raises
\* UnpicklingError, which are not.
initialize_cache(file, cache) ==
    CASE file.kind = "missing" ->
            [raised |-> "none", map |-> cache,
             file |-> [kind |-> "empty", map |-> EmptyMap]]
      [] file.kind = "empty" ->
            [raised |-> "none", map |-> cache, file |-> file]
      [] file.kind = "unreadable" ->
            [raised |-> "PermissionError", map |-> cache, file |-> file]
      [] file.kind = "garbage" ->
            [raised |-> "UnpicklingError", map |-> cache, file |-> file]
      [] OTHER ->
            [raised |-> "none", map |-> file.map, file |-> file]

\* DNSCache.save_cache: self.buffer is evaluated first and is no attribute
\* of DNSCache, so the method raises before the file is opened.
save_cache(file, cache) ==
    [raised |-> "AttributeError", file |-> file]

\* Server.__init__ up to the call of _initialize
Constructing ==
    [pc |-> "init", handle_flag |-> TRUE, socket_open |-> FALSE,
     sweeper_alive |-> FALSE, joined |-> FALSE, found |-> "none",
     raised |-> "none"]

LifeFrame ==
    /\ UNCHANGED << now, cache_op >>
    /\ UNCHANGED serverVars
    /\ UNCHANGED codecVars
    /\ UNCHANGED threadVars

\* _init_socket
InitSocket ==
    /\ life.pc = "init"
    /\ life' = [life EXCEPT !.pc = "socket", !.socket_open = TRUE]
    /\ event' = "init_socket"
    /\ UNCHANGED << cache_data, cache_file >>
    /\ LifeFrame

\* what _init_cacher does with the outcome of initialize_cache: an exception
\* leaves _init_cacher, _initialize and Server.__init__
Loaded(outcome) ==
    /\ cache_data' = outcome.map
    /\ cache_file' = outcome.file
    /\ life' = [life EXCEPT
                    !.pc = IF outcome.raised = "none" THEN "loaded" ELSE "failed",
                    !.found = cache_file.kind,
                    !.raised = outcome.raised]

\* _init_cacher: DNSCache(...) and initialize_cache()
InitCacher ==
    /\ life.pc = "socket"
    /\ Loaded(initialize_cache(cache_file, EmptyMap))
    /\ event' = "init_cacher"
    /\ LifeFrame

\* _init_cacher: start_cleanup_process(); then _init_resolver and
\* signal.signal, and run() reaches recvfrom
StartCleanup ==
    /\ life.pc = "loaded"
    /\ life' = [life EXCEPT !.pc = "running", !.sweeper_alive = TRUE]
    /\ event' = "start"
    /\ UNCHANGED << cache_data, cache_file >>
    /\ LifeFrame

\* a request served while the server runs: its answer goes to the cache
Serve(domain, q_type, records) ==
    /\ life.pc = "running"
    /\ CacheAdd(domain, q_type, records)

\* time passes while the server runs
LifeTick ==
    /\ life.pc = "running"
    /\ Tick

\* SIGINT: _close, line 128
CloseFlag ==
    /\ life.pc = "running"
    /\ life' = [life EXCEPT !.pc = "close_socket", !.handle_flag = FALSE]
    /\ event' = "interrupt"
    /\ UNCHANGED << cache_data, cache_file >>
    /\ LifeFrame

\* _close, lines 129-130
CloseSocket ==
    /\ life.pc = "close_socket"
    /\ life' = [life EXCEPT !.pc = "close_cache", !.socket_open = FALSE]
    /\ event' = "close_socket"
    /\ UNCHANGED << cache_data, cache_file >>
    /\ LifeFrame

\* _close, lines 131-133: DNSCache has no save (and no close), so the call
\* raises AttributeError out of the signal handler and out of run(); the
\* process ends, and the daemon thread of the sweeper with it.  shutdown()
\* and save_cache() are not called.
CloseCacher ==
    /\ life.pc = "close_cache"
    /\ life' = [life EXCEPT !.pc = "ended", !.raised = "AttributeError",
                            !.sweeper_alive = FALSE]
    /\ event' = "close_cacher"
    /\ UNCHANGED << cache_data, cache_file >>
    /\ LifeFrame

InitLife ==
    /\ root_server_port = DefaultPort
    /\ cache_data = EmptyMap
    /\ now = 0
    /\ pc = "idle"
    /\ request = << >>
    /\ qindex = 0
    /\ total_a_records = << >>
    /\ stack = << >>
    /\ reply = NoReply
    /\ qlog = << >>
    /\ last_sent = NoSend
    /\ last_received = NoReceive
    /\ event = "init"
    /\ cache_op = NoCacheOp
    /\ wire = << >>
    /\ decoded = [status |-> "none"]
    /\ built = << >>
    /\ rebuilt = NotBuilt
    /\ lock = "none"
    /\ sweeper = SweeperAsleep
    /\ handler = HandlerIdle("none")
    /\ removed = NoRemoved
    /\ cache_file \in CacheFiles
    /\ life = Constructing

NextLife ==
    \/ InitSocket
    \/ InitCacher
    \/ StartCleanup
    \/ \E domain \in CacheDomains : \E q_type \in CacheTypes :
          \E records \in CacheRecordSets : Serve(domain, q_type, records)
    \/ LifeTick
    \/ CloseFlag
    \/ CloseSocket
    \/ CloseCacher

SpecLife == InitLife /\ [][NextLife]_vars

\* C14: when _close has ended, the run flag is clear, the socket is closed,
\* the sweeper has been joined and the cache file holds the map that was in
\* memory, so that a load gives that map back.
C14_GracefulShutdown ==
    life.pc = "ended" =>
        /\ ~life.handle_flag
        /\ ~life.socket_open
        /\ life.joined
        /\ cache_file = Pickled(cache_data)
        /\ initialize_cache(cache_file, EmptyMap).map = cache_data

\* C15: whatever initialize_cache finds in place of a cache (no file, an
\* empty file, an unreadable file, bytes that do not deserialise), it
\* returns, the map is empty, and a missing file exists afterwards.
C15_LoadNeverFails ==
    life.found \in {"missing", "empty", "unreadable", "garbage"} =>
        /\ life.pc # "failed"
        /\ cache_file.kind # "missing"
        /\ life.pc = "loaded" => cache_data = EmptyMap


\* ------------------------------------------------------------------------
\* Properties of the codec
\* ------------------------------------------------------------------------

\* what frames a record: its name, type, class and ttl
RecordFrames(records) ==
    [i \in 1..Len(records) |->
        << records[i].domain, records[i].record_type, records[i].record_class,
           records[i].ttl >>]

\* packet starts with the response header for p and, read back as again,
\* lists the questions of p and then the answers of p, each in its order
Framed(p, packet, again) ==
    /\ Len(packet) >= HeaderSize
    /\ SubSeq(packet, 1, HeaderSize)
          = WireHeader(p.header.packet_id, 33024, Len(p.questions),
                       Len(p.answers), 0, 0)
    /\ again.status = "ok"
    /\ again.questions = p.questions
    /\ RecordFrames(again.answers) = RecordFrames(p.answers)

\* the packet built, or no bytes when build_response_packet raised
PacketOf(result) == IF result.status = "ok" THEN result.packet ELSE << >>

\* C16: build_response_packet, given the header, questions and answers of
\* a decoded packet, returns a packet whose header has the id of the
\* request, flags 0x8100, the two counts and two zeros, followed by the
\* questions in order and the answers in order.
C16_ResponseFraming ==
    rebuilt.status # "none" =>
        /\ rebuilt.status = "ok"
        /\ Framed(decoded, PacketOf(rebuilt), DNSPacket(PacketOf(rebuilt)))

\* the rdata of every A record is 4 bytes long and of every AAAA record 16
PlainAddresses(records) ==
    \A i \in 1..Len(records) :
        /\ records[i].record_type = TypeA => records[i].data_length = 4
        /\ records[i].record_type = TypeAAAA => records[i].data_length = 16

\* what a record says: its name, type, class, ttl and data
RecordValues(records) ==
    [i \in 1..Len(records) |->
        << records[i].domain, records[i].record_type, records[i].record_class,
           records[i].ttl, records[i].data >>]

\* again, decoded from the bytes built from p, says what p says
SameContent(p, again) ==
    /\ again.status = "ok"
    /\ again.header.packet_id = p.header.packet_id
    /\ again.questions = p.questions
    /\ RecordValues(again.answers) = RecordValues(p.answers)

\* C17: a decoded packet whose addresses have their proper lengths, built
\* again by build_response_packet and decoded again, has the same id, the
\* same questions and the same answers (name, type, class, ttl, data).
C17_RoundTrip ==
    (rebuilt.status # "none" /\ PlainAddresses(decoded.answers)) =>
        /\ rebuilt.status = "ok"
        /\ SameContent(decoded, DNSPacket(PacketOf(rebuilt)))

\* the name of the first question of data is a compression pointer whose
\* target is not before the pointer
PointsAhead(data) ==
    /\ Len(data) >= HeaderSize + 2
    /\ U16(data, 4) >= 1
    /\ data[HeaderSize + 1] \div 64 = 3
    /\ (data[HeaderSize + 1] % 64) * 256 + data[HeaderSize + 2] >= HeaderSize

\* C18: decoding ends on every payload, and a payload whose first name is
\* a pointer to itself or to a later offset fails.
C18_PointersGoBack ==
    decoded.status # "none" =>
        /\ decoded.status # "hang"
        /\ PointsAhead(wire) => decoded.status = "error"

\* C19: in a packet that decoded, the cursor is not past the end of the
\* bytes.
C19_CursorBound ==
    decoded.status = "ok" => decoded.position <= Len(wire)


\* no entry of cache has an empty record list, and no domain of cache has
\* an empty map of types
NoEmptyEntries(cache) ==
    \A domain \in DOMAIN cache :
        /\ DOMAIN cache[domain] # {}
        /\ \A q_type \in DOMAIN cache[domain] :
               cache[domain][q_type].records # << >>

\* C21: after any sequence of add_records, get_records and evictions of
\* the cleanup thread, interleaved in any way, that is whenever no thread
\* is inside add_records or _remove_expired_records, no entry of the cache
\* has an empty record list and no domain has an empty map of types.
C21_NoEmptyEntries ==
    lock = "none" => NoEmptyEntries(cache_data)

\* C21, its case: the cleanup thread is in its loop over the types of a
\* domain that an eviction has since removed from the map with its last
\* type, and no thread holds the lock.
C21_Witness ==
    /\ lock = "none"
    /\ sweeper.pc = "types"
    /\ sweeper.domain \notin DOMAIN cache_data

\* C22: however get_records and a pass of the cleanup thread interleave,
\* the call of the handler does not end in a KeyError and the cleanup
\* thread does not end.
C22_NoKeyErrors ==
    /\ handler.result # "KeyError"
    /\ sweeper.pc # "dead"

====
